---- MODULE Spec2Model ----
(***************************************************************************)
(* Model of the analytics bot: the embedded store (guild_settings and      *)
(* messages tables), the gateway event handlers, and the interactive       *)
(* /settings session (a channel-scoped component collector with a 5 minute *)
(* timer whose collect handler writes the store from a cached settings     *)
(* object).                                                                *)
(***************************************************************************)
EXTENDS Integers, Sequences, FiniteSets, TLC

VARIABLES guild_settings, messages, members, reactions, sessions, nInteractions,
          now, calls, cron, last

vars ==
  <<guild_settings, messages, members, reactions, sessions, nInteractions, now, calls,
    cron, last>>

----------------------------------------------------------------------------
(* Bounds *)

\* /settings commands answered (collectors created)
MaxSessions == 2
\* component interactions delivered
MaxInteractions == 2
\* rows of the messages table
MaxMessages == 1
\* steps of the clock
MaxTicks == 2
\* rows of a message log the aggregation is run on
MaxLog == 2
\* the largest current total a change is computed for
MaxTotal == 110
\* runs of the weekly job
MaxRuns == 1
\* rows of the reactions table
MaxReactions == 1
\* rows of the members table the handlers add
MaxMembers == 1

(* Program constants *)

\* collector option time: 300000 (milliseconds)
SessionTTL == 300000

\* the clock advances in steps of half a time-to-live
TimeStep == SessionTTL \div 2

Guilds == {"g1", "g2"}
Users == {"u1", "u2"}

\* guild.channels.cache: the text channels of a guild
ChannelsOf(g) == IF g = "g1" THEN {"c1", "c2"} ELSE {"c3"}

\* message.content.length
Lengths == {5}

\* SQL NULL and the JavaScript undefined (a key the object does not have)
Null == "NULL"
Undefined == "undefined"

\* JavaScript truthiness of an INTEGER column (0 and NULL are falsy)
TruthyInt(v) == v = 1

\* JavaScript truthiness of a TEXT column / optional string
TruthyText(v) == v \notin {Null, Undefined, ""}

\* JSON.parse(settings.tracked_channels || "[]")
JSONparse(text) ==
  CASE text = "[\"c1\"]" -> <<"c1">>
    [] text = "[\"c2\",\"c3\"]" -> <<"c2", "c3">>
    [] OTHER -> <<>>

trackedChannelsOf(settings) ==
  JSONparse(IF TruthyText(settings.tracked_channels) THEN settings.tracked_channels ELSE "[]")

\* Array.prototype.includes
includes(seq, x) == \E i \in 1..Len(seq) : seq[i] = x

----------------------------------------------------------------------------
(* The store: database/queries.js over the schema of database/init.js *)

\* CREATE TABLE guild_settings: the column defaults a bare INSERT (guild_id) gets
DefaultRow(g) ==
  [guild_id |-> g, enabled |-> 1, log_channel_id |-> Null,
   tracked_channels |-> "[]", notifications_enabled |-> 1]

\* SELECT * FROM guild_settings WHERE guild_id = ?  (all matching rows, in table order)
SelectSettings(table, g) == SelectSeq(table, LAMBDA r : r.guild_id = g)

\* INSERT INTO guild_settings (guild_id) VALUES (?): guild_id is the PRIMARY KEY,
\* a second insert of the same key throws SQLITE_CONSTRAINT and changes nothing
InsertSettings(table, g) ==
  IF Len(SelectSettings(table, g)) > 0
    THEN [table |-> table, threw |-> TRUE]
    ELSE [table |-> Append(table, DefaultRow(g)), threw |-> FALSE]

\* mutant: the object returned on first access says tracking is off
DefaultsLiteralDisabled(g) ==
  [guild_id |-> g, enabled |-> 0, log_channel_id |-> Undefined,
   tracked_channels |-> "[]", notifications_enabled |-> 1]

\* the object literal getGuildSettings returns after creating the row
\* (it has no log_channel_id key)
DefaultsLiteral(g) ==
  [guild_id |-> g, enabled |-> 1, log_channel_id |-> Undefined,
   tracked_channels |-> "[]", notifications_enabled |-> 1]

\* mutant: the row is never inserted on first access
getGuildSettingsNoInsert(table, g) ==
  LET found == SelectSettings(table, g) IN
  IF Len(found) > 0
    THEN [table |-> table, settings |-> found[1], threw |-> FALSE]
    ELSE [table |-> table, settings |-> DefaultsLiteral(g), threw |-> FALSE]

\* getGuildSettings(guildId): SELECT, then INSERT when nothing was found
getGuildSettings(table, g) ==
  LET found == SelectSettings(table, g) IN
  IF Len(found) > 0
    THEN [table |-> table, settings |-> found[1], threw |-> FALSE]
    ELSE LET ins == InsertSettings(table, g) IN
         IF ins.threw
           THEN [table |-> table, settings |-> DefaultsLiteral(g), threw |-> TRUE]
           ELSE [table |-> ins.table, settings |-> DefaultsLiteral(g), threw |-> FALSE]

\* one row after UPDATE ... SET <keys of updates>
UpdateRow(row, updates) ==
  [c \in DOMAIN row |-> IF c \in DOMAIN updates THEN updates[c] ELSE row[c]]

\* mutant: the UPDATE rewrites the whole row, unnamed columns back to their defaults
updateGuildSettingsReplace(table, g, updates) ==
  [i \in 1..Len(table) |->
     IF table[i].guild_id = g THEN UpdateRow(DefaultRow(g), updates) ELSE table[i]]

\* mutant: the UPDATE has no WHERE clause
updateGuildSettingsAll(table, g, updates) ==
  [i \in 1..Len(table) |-> UpdateRow(table[i], updates)]

\* updateGuildSettings(guildId, updates): UPDATE guild_settings SET k = ?, ... WHERE guild_id = ?
updateGuildSettings(table, g, updates) ==
  [i \in 1..Len(table) |->
     IF table[i].guild_id = g THEN UpdateRow(table[i], updates) ELSE table[i]]

\* mutant: the insert is written twice
trackMessageTwice(table, g, u, c, len, t) ==
  Append(Append(table, [guild_id |-> g, user_id |-> u, channel_id |-> c,
                        message_length |-> len, timestamp |-> t]),
         [guild_id |-> g, user_id |-> u, channel_id |-> c,
          message_length |-> len, timestamp |-> t])

\* trackMessage(guildId, userId, channelId, messageLength): one INSERT stamped Date.now()
trackMessage(table, g, u, c, len, t) ==
  Append(table, [guild_id |-> g, user_id |-> u, channel_id |-> c,
                 message_length |-> len, timestamp |-> t])

\* mutant: the reaction is not stored
trackReactionNone(table, g, u, emoji, t) == table

\* trackReaction(guildId, userId, emoji): one INSERT stamped Date.now()
trackReaction(table, g, u, emoji, t) ==
  Append(table, [guild_id |-> g, user_id |-> u, emoji |-> emoji, timestamp |-> t])

\* the settings row of guild g as the store holds it (the SELECT's rows)
RowsOf(g) == SelectSettings(guild_settings, g)

----------------------------------------------------------------------------
(* The aggregation queries: getAnalytics and getPreviousAnalytics *)

\* mutant: the row is stamped with the epoch
trackMemberUnstamped(table, g, u, action, t) ==
  Append(table, [guild_id |-> g, user_id |-> u, action |-> action, timestamp |-> 0])

\* trackMember(guildId, userId, action): one INSERT stamped Date.now()
trackMember(table, g, u, action, t) ==
  Append(table, [guild_id |-> g, user_id |-> u, action |-> action, timestamp |-> t])

\* Date.now() counts milliseconds; the instants of the aggregation specifications
\* are whole seconds, ClockUnit milliseconds each (60 days of milliseconds are
\* more than a 32 bit integer holds)
ClockUnit == 1000

\* period === "week" ? 7 * 24 * 60 * 60 * 1000 : 30 * 24 * 60 * 60 * 1000
timeRange(period) ==
  IF period = "week" THEN 7 * 24 * 60 * 60 * (1000 \div ClockUnit)
                     ELSE 30 * 24 * 60 * 60 * (1000 \div ClockUnit)

\* LIMIT 10
TopLimit == 10

\* the order the store compares identifiers in (text order)
IdOrder ==
  <<"c1", "c2", "c3", "u1", "u2", "u3", "u4", "u5", "u6", "u7", "u8", "u9",
    "v1", "v2", "v3">>

IdRank(id) == CHOOSE n \in 1..Len(IdOrder) : IdOrder[n] = id

\* mutant: the window is open at its start (timestamp > ?)
SinceExclusive(table, g, startTime) ==
  SelectSeq(table, LAMBDA r : r.guild_id = g /\ r.timestamp > startTime)

\* mutant: the rows are not restricted to the guild
SinceAnyGuild(table, g, startTime) ==
  SelectSeq(table, LAMBDA r : r.timestamp >= startTime)

\* WHERE guild_id = ? AND timestamp >= ?
Since(table, g, startTime) ==
  SelectSeq(table, LAMBDA r : r.guild_id = g /\ r.timestamp >= startTime)

\* WHERE guild_id = ? AND timestamp >= ? AND timestamp < ?
Between(table, g, startTime, endTime) ==
  SelectSeq(table, LAMBDA r : r.guild_id = g /\ r.timestamp >= startTime
                                /\ r.timestamp < endTime)

\* COUNT(*) of the group of key k
CountOf(rows, col, k) == Cardinality({n \in 1..Len(rows) : rows[n][col] = k})

\* the groups of GROUP BY col
GroupKeys(rows, col) == {rows[n][col] : n \in 1..Len(rows)}

\* ORDER BY count DESC: groups of equal count come in an order SQL leaves open;
\* tie = "asc" takes them in the order of their keys, tie = "desc" in the reverse
RECURSIVE OrderByCountDesc(_, _, _, _)
OrderByCountDesc(rows, col, keys, tie) ==
  IF keys = {} THEN <<>>
  ELSE LET first == CHOOSE k \in keys : \A j \in keys \ {k} :
                      \/ CountOf(rows, col, k) > CountOf(rows, col, j)
                      \/ /\ CountOf(rows, col, k) = CountOf(rows, col, j)
                         /\ IF tie = "asc" THEN IdRank(k) < IdRank(j)
                                           ELSE IdRank(k) > IdRank(j)
       IN <<[key |-> first, count |-> CountOf(rows, col, first)]>>
            \o OrderByCountDesc(rows, col, keys \ {first}, tie)

\* mutant: the ranking is not cut
LimitNone(seq, n) == seq

\* LIMIT n
Limit(seq, n) == SubSeq(seq, 1, IF Len(seq) < n THEN Len(seq) ELSE n)

\* SELECT col, COUNT(*) as count ... GROUP BY col ORDER BY count DESC LIMIT 10
TopBy(rows, col, tie) ==
  Limit(OrderByCountDesc(rows, col, GroupKeys(rows, col), tie), TopLimit)

\* timestamp / 1000 as 'unixepoch': seconds since the epoch (integer division)
UnixEpoch(timestamp) == timestamp \div (1000 \div ClockUnit)

\* DATE(timestamp / 1000, 'unixepoch'): the UTC calendar day, as its number since
\* the epoch
DateOf(timestamp) == UnixEpoch(timestamp) \div (24 * 60 * 60)

\* CAST(strftime('%H', timestamp / 1000, 'unixepoch') AS INTEGER)
HourOf(timestamp) == (UnixEpoch(timestamp) \div (60 * 60)) % 24

\* ORDER BY b, for the buckets b of a GROUP BY
RECURSIVE OrderByBucket(_)
OrderByBucket(buckets) ==
  IF buckets = {} THEN <<>>
  ELSE LET first == CHOOSE b \in buckets : \A c \in buckets : b <= c
       IN <<first>> \o OrderByBucket(buckets \ {first})

dailyActivityOf(rows) ==
  LET dates == OrderByBucket({DateOf(rows[n].timestamp) : n \in 1..Len(rows)})
  IN [k \in 1..Len(dates) |->
        [date |-> dates[k],
         count |-> Cardinality({n \in 1..Len(rows) : DateOf(rows[n].timestamp) = dates[k]})]]

hourlyActivityOf(rows) ==
  LET hours == OrderByBucket({HourOf(rows[n].timestamp) : n \in 1..Len(rows)})
  IN [k \in 1..Len(hours) |->
        [hour |-> hours[k],
         count |-> Cardinality({n \in 1..Len(rows) : HourOf(rows[n].timestamp) = hours[k]})]]

\* getAnalytics(guildId, period) at the instant t = Date.now()
getAnalytics(msgs, mems, g, period, t, tie) ==
  LET startTime == t - timeRange(period)
      rows == Since(msgs, g, startTime)
      users == TopBy(rows, "user_id", tie)
      channels == TopBy(rows, "channel_id", tie)
      joined == Since(SelectSeq(mems, LAMBDA r : r.action = "join"), g, startTime)
      left == Since(SelectSeq(mems, LAMBDA r : r.action = "leave"), g, startTime)
  IN [topUsers |-> [n \in 1..Len(users) |->
                      [user_id |-> users[n].key, count |-> users[n].count]],
      topChannels |-> [n \in 1..Len(channels) |->
                         [channel_id |-> channels[n].key, count |-> channels[n].count]],
      totalMessages |-> Len(rows),
      newMembers |-> Len(joined),
      leftMembers |-> Len(left),
      dailyActivity |-> dailyActivityOf(rows),
      hourlyActivity |-> hourlyActivityOf(rows)]

\* getPreviousAnalytics(guildId, period) at the instant t = Date.now()
getPreviousAnalytics(msgs, g, period, t) ==
  LET startTime == t - timeRange(period) * 2
      endTime == t - timeRange(period)
  IN [totalMessages |-> Len(Between(msgs, g, startTime, endTime))]

----------------------------------------------------------------------------
(* Report assembly: commands/report.js, commands/stats.js, the weekly report *)
(* and services/chart-generator.js                                         *)

\* user.user.username and channel.name of the identifiers the directory knows
UsernameOf(id) ==
  CASE id = "u1" -> "alice" [] id = "u2" -> "bob" [] OTHER -> id

ChannelNameOf(id) ==
  CASE id = "c1" -> "general" [] id = "c2" -> "random" [] id = "c3" -> "lobby"
    [] OTHER -> id

\* Array.prototype.slice(0, end)
slice(seq, end) == SubSeq(seq, 1, IF Len(seq) < end THEN Len(seq) ELSE end)

\* mutant: an identifier that does not resolve is shown without its count
userLabelNoCount(u, resolvable, rank) ==
  IF u.user_id \in resolvable
    THEN [rank |-> rank, label |-> UsernameOf(u.user_id), count |-> u.count]
    ELSE [rank |-> rank, label |-> "Unknown User", count |-> 0]

\* try { (await guild.members.fetch(u.user_id)).user.username } catch { "Unknown User" }
\* with the count of the entry, at the rank of the entry
userLabel(u, resolvable, rank) ==
  IF u.user_id \in resolvable
    THEN [rank |-> rank, label |-> UsernameOf(u.user_id), count |-> u.count]
    ELSE [rank |-> rank, label |-> "Unknown User", count |-> u.count]

\* try { (await guild.channels.fetch(c.channel_id)).name } catch { "Unknown Channel" }
channelLabel(c, resolvable, rank) ==
  IF c.channel_id \in resolvable
    THEN [rank |-> rank, label |-> ChannelNameOf(c.channel_id), count |-> c.count]
    ELSE [rank |-> rank, label |-> "Unknown Channel", count |-> c.count]

\* analytics.topUsers.slice(0, n).map(...), all lookups awaited with Promise.all
topUsersOf(analytics, n, resolvable) ==
  LET top == slice(analytics.topUsers, n)
  IN [k \in 1..Len(top) |-> userLabel(top[k], resolvable, k)]

topChannelsOf(analytics, n, resolvable) ==
  LET top == slice(analytics.topChannels, n)
  IN [k \in 1..Len(top) |-> channelLabel(top[k], resolvable, k)]

\* the pairs <<|cur - prev|, prev>> with prev in PrevTotals and cur below 140 whose
\* quotient ((cur - prev) / prev) * 100 lies exactly halfway between two tenths
\* while the double the expression evaluates to lies below that halfway point
\* (23 / 80 * 100 is 28.749999999999996 in binary floating point, not 28.75)
DoubleBelowTie == {<<23, 80>>, <<41, 80>>, <<51, 80>>}

\* Number.prototype.toFixed(1) of the double ((cur - prev) / prev) * 100, in tenths:
\* the tenth nearest to the double, the larger one in magnitude when the double is
\* exactly halfway
toFixed1(cur, prev) ==
  LET m == IF cur >= prev THEN cur - prev ELSE prev - cur
      q == (m * 1000) \div prev
      r == (m * 1000) % prev
  IN [kind |-> "string",
      negative |-> cur < prev,
      tenths |-> IF 2 * r > prev THEN q + 1
                 ELSE IF 2 * r < prev THEN q
                 ELSE IF <<m, prev>> \in DoubleBelowTie THEN q ELSE q + 1]

\* mutant: the change is computed against a previous total of zero as well
changeAlways(cur, prev) ==
  IF prev > 0 THEN toFixed1(cur, prev)
  ELSE [kind |-> "string", negative |-> FALSE, tenths |-> cur * 1000]

\* previous.totalMessages > 0 ? (((cur - prev) / prev) * 100).toFixed(1) : 0
changeOf(cur, prev) ==
  IF prev > 0 THEN toFixed1(cur, prev)
  ELSE [kind |-> "number", negative |-> FALSE, tenths |-> 0]

\* `${change > 0 ? "+" : ""}${change}%`: the sign shown in front of the change
changeSign(change) ==
  IF change.tenths > 0 /\ ~change.negative THEN "+" ELSE ""

\* mutant: only the hours that have a count are charted
heatmapCountsSparse(hourlyActivity) ==
  [n \in 1..Len(hourlyActivity) |-> hourlyActivity[n].count]

\* generateHeatmap: hours = 0..23, counts = hours.map(h => the count of the first
\* entry with a.hour === h, or 0); entry n of the result is hour n - 1
heatmapCounts(hourlyActivity) ==
  [n \in 1..24 |->
     LET h == n - 1
         found == SelectSeq(hourlyActivity, LAMBDA a : a.hour = h)
     IN IF Len(found) > 0 THEN found[1].count ELSE 0]

\* labels: hours.map((h) => `${h}:00`)
heatmapLabels == [n \in 1..24 |-> n - 1]

\* what a report shows of a period summary; a field a shape does not have is empty
NoPayload ==
  [shape |-> "none", total |-> 0, change |-> changeOf(0, 0), users |-> <<>>,
   channels |-> <<>>, series |-> <<>>, labels |-> <<>>]

\* the payload of /report for each type
reportPayload(type, analytics, previous, resolvableUsers, resolvableChannels) ==
  CASE type = "heatmap" ->
         [NoPayload EXCEPT !.shape = "heatmap",
                           !.series = heatmapCounts(analytics.hourlyActivity),
                           !.labels = heatmapLabels]
    [] type = "users" ->
         [NoPayload EXCEPT !.shape = "users",
                           !.users = topUsersOf(analytics, 10, resolvableUsers)]
    [] type = "channels" ->
         [NoPayload EXCEPT !.shape = "channels",
                           !.channels = topChannelsOf(analytics, 10, resolvableChannels)]
    [] OTHER ->
         [NoPayload EXCEPT !.shape = "overview",
                           !.total = analytics.totalMessages,
                           !.change = changeOf(analytics.totalMessages,
                                               previous.totalMessages),
                           !.users = topUsersOf(analytics, 5, resolvableUsers),
                           !.channels = topChannelsOf(analytics, 5, resolvableChannels)]

\* the payload of /stats: the first entry of each ranking, if there is one
statsPayload(analytics, resolvableUsers, resolvableChannels) ==
  [NoPayload EXCEPT !.shape = "stats",
                    !.total = analytics.totalMessages,
                    !.users = topUsersOf(analytics, 1, resolvableUsers),
                    !.channels = topChannelsOf(analytics, 1, resolvableChannels)]

\* the embed of the weekly report
weeklyPayload(analytics, previous, resolvableUsers) ==
  [NoPayload EXCEPT !.shape = "weekly",
                    !.total = analytics.totalMessages,
                    !.change = changeOf(analytics.totalMessages, previous.totalMessages),
                    !.users = topUsersOf(analytics, 5, resolvableUsers)]

----------------------------------------------------------------------------
(* What the last handled event was: its inputs and what it sent back *)

Event(op) ==
  [op |-> op, guild |-> "", user |-> "", channel |-> "", bot |-> FALSE,
   len |-> 0, proc |-> "", target |-> 0, customId |-> "", value |-> "", collected |-> <<>>,
   replies |-> <<>>, threw |-> FALSE, settings |-> DefaultsLiteral(""),
   updates |-> [enabled |-> 1]]

----------------------------------------------------------------------------
(* The /settings command and its collector: commands/settings.js *)

\* the three fields of the embed (addFields at the start, spliceFields on re-render)
Render(settings) ==
  [tracking |-> IF TruthyInt(settings.enabled) THEN "Enabled" ELSE "Disabled",
   notifications |-> IF TruthyInt(settings.notifications_enabled) THEN "Enabled" ELSE "Disabled",
   log |-> IF TruthyText(settings.log_channel_id) THEN settings.log_channel_id ELSE "Not set"]

\* mutant: the toggle writes the value it read
ToggleKeep(v) == v

\* settings.enabled ? 0 : 1
Toggle(v) == IF TruthyInt(v) THEN 0 ELSE 1

CustomIds == {"toggle_tracking", "toggle_notifications", "set_log_channel"}

\* mutant: every component writes the tracking column
collectUpdatesTracking(settings, customId, value) ==
  IF customId = "set_log_channel" THEN [enabled |-> 0] ELSE [enabled |-> Toggle(settings.enabled)]

\* the updates object the collect handler passes to updateGuildSettings,
\* computed from the session's cached settings object
collectUpdates(settings, customId, value) ==
  CASE customId = "toggle_tracking" -> [enabled |-> Toggle(settings.enabled)]
    [] customId = "toggle_notifications" ->
         [notifications_enabled |-> Toggle(settings.notifications_enabled)]
    [] customId = "set_log_channel" -> [log_channel_id |-> value]

\* the content of i.reply in each branch
collectReply(settings, customId) ==
  CASE customId = "toggle_tracking" ->
         IF TruthyInt(settings.enabled) THEN "Tracking enabled!" ELSE "Tracking disabled!"
    [] customId = "toggle_notifications" ->
         IF TruthyInt(settings.notifications_enabled)
           THEN "Notifications enabled!" ELSE "Notifications disabled!"
    [] customId = "set_log_channel" -> "Log channel set!"

\* mutant: a collector goes on listening after its timer has stopped it
ListeningAlways(sess) == TRUE

\* a collector listens until its timer has stopped it
Listening(sess) == ~sess.ended

\* mutant: the collector takes every user's components
filterAnyone(sess, i) == TRUE

\* filter: (i) => i.user.id === interaction.user.id
filter(sess, i) == i.user = sess.operator

\* interaction.channel.createMessageComponentCollector: the collector takes the
\* component interactions of its channel, whatever message carries the component
Collects(sess, i) ==
  /\ Listening(sess)
  /\ i.channel = sess.channel
  /\ i.guild = sess.guild
  /\ filter(sess, i)

\* collector.on("collect"), up to its first await: the write, the cached
\* object's change, and the reply it starts
collectHandler(st, k, i) ==
  LET sess == st.sessions[k]
      upd == collectUpdates(sess.settings, i.customId, i.value)
      cache == UpdateRow(sess.settings, upd)
      isFirst == Len(st.collected) = 0
  IN [table |-> updateGuildSettings(st.table, sess.guild, upd),
      sessions |-> [st.sessions EXCEPT
                      ![k].settings = cache,
                      ![k].awaitFirst = IF isFirst THEN @ + 1 ELSE @,
                      ![k].awaitLater = IF isFirst THEN @ ELSE @ + 1],
      collected |-> Append(st.collected, k),
      replies |-> Append(st.replies, collectReply(cache, i.customId))]

\* the client emits the interaction to every collector, in the order they were created
RECURSIVE Dispatch(_, _, _)
Dispatch(st, k, i) ==
  IF k > Len(st.sessions) THEN st
  ELSE IF Collects(st.sessions[k], i)
         THEN Dispatch(collectHandler(st, k, i), k + 1, i)
         ELSE Dispatch(st, k + 1, i)

----------------------------------------------------------------------------
(* State after construction: empty tables, no session, clock at 0 *)

NoCall == [pc |-> "idle", guild |-> "g1", threw |-> FALSE, settings |-> DefaultsLiteral("g1")]

Procs == {"p1", "p2"}

\* what a pending weekly report holds of its guild: the two summaries
NoJob ==
  [analytics |-> getAnalytics(<<>>, <<>>, "", "week", 0, "asc"),
   previous |-> getPreviousAnalytics(<<>>, "", "week", 0)]

\* the weekly job before its first run: the process runs, no guild has been handled
NoRun ==
  [process |-> "running", runs |-> 0, status |-> [g \in Guilds |-> "idle"],
   job |-> [g \in Guilds |-> NoJob]]

Init ==
  /\ guild_settings = <<>>
  /\ messages = <<>>
  /\ sessions = <<>>
  /\ nInteractions = 0
  /\ now = 0
  /\ calls = [p \in Procs |-> NoCall]
  /\ members = <<>>
  /\ reactions = <<>>
  /\ cron = NoRun
  /\ last = Event("init")

----------------------------------------------------------------------------
(* The bot: slash command, component interactions, timers *)

\* settingsCommand.execute(interaction): read (or create) the settings row, render
\* the embed, reply, and start a collector on the channel for 300000 ms
SettingsCommand(g, u, ch) ==
  /\ Len(sessions) < MaxSessions
  /\ LET r == getGuildSettings(guild_settings, g) IN
     /\ ~r.threw
     /\ guild_settings' = r.table
     /\ sessions' = Append(sessions,
                      [guild |-> g, operator |-> u, channel |-> ch,
                       settings |-> r.settings, view |-> Render(r.settings),
                       created |-> now, ended |-> FALSE,
                       awaitFirst |-> 0, awaitLater |-> 0])
     /\ last' = [Event("settings") EXCEPT !.guild = g]
  /\ UNCHANGED <<messages, nInteractions, now, calls, members, reactions, cron>>

\* the operator uses a component of the view of session t (an ephemeral message,
\* which only its operator sees); the gateway delivers the interaction to the
\* InteractionCreate handler, which returns at once (not a chat input command),
\* and to every collector
ComponentInteraction(t, customId, value) ==
  LET i == [guild |-> sessions[t].guild, channel |-> sessions[t].channel,
            user |-> sessions[t].operator, customId |-> customId, value |-> value]
      st == Dispatch([table |-> guild_settings, sessions |-> sessions,
                      collected |-> <<>>, replies |-> <<>>], 1, i)
  IN /\ nInteractions < MaxInteractions
     /\ nInteractions' = nInteractions + 1
     /\ guild_settings' = st.table
     /\ sessions' = st.sessions
     /\ last' = [Event("component") EXCEPT
                   !.target = t, !.customId = customId, !.value = value,
                   !.collected = st.collected, !.replies = st.replies]
     /\ UNCHANGED <<messages, now, calls, members, reactions, cron>>

\* i.reply of the handler that answered the interaction first resolves: the handler
\* goes on, rewrites the embed from the cached object and edits the command's reply
ReplyResolved(k) ==
  /\ sessions[k].awaitFirst > 0
  /\ sessions' = [sessions EXCEPT ![k].awaitFirst = @ - 1,
                                  ![k].view = Render(sessions[k].settings)]
  /\ last' = [Event("rerender") EXCEPT !.target = k]
  /\ UNCHANGED <<guild_settings, messages, nInteractions, now, calls, members, reactions, cron>>

\* i.reply rejects (the interaction was already acknowledged by another collector's
\* handler, or the request failed): the handler ends there, nothing is re-rendered
ReplyRejected(k, first) ==
  /\ IF first THEN sessions[k].awaitFirst > 0 ELSE sessions[k].awaitLater > 0
  /\ sessions' = [sessions EXCEPT ![k].awaitFirst = IF first THEN @ - 1 ELSE @,
                                  ![k].awaitLater = IF first THEN @ ELSE @ - 1]
  /\ last' = [Event("rejected") EXCEPT !.target = k, !.threw = TRUE]
  /\ UNCHANGED <<guild_settings, messages, nInteractions, now, calls, members, reactions, cron>>

\* time passes; a collector whose 300000 ms have run out is stopped by its timer
Tick ==
  /\ now + TimeStep <= MaxTicks * TimeStep
  /\ now' = now + TimeStep
  /\ sessions' = [k \in 1..Len(sessions) |->
                    IF now' >= sessions[k].created + SessionTTL
                      THEN [sessions[k] EXCEPT !.ended = TRUE]
                      ELSE sessions[k]]
  /\ last' = Event("tick")
  /\ UNCHANGED <<guild_settings, messages, nInteractions, calls, members, reactions, cron>>

\* the timers of the collectors on their own: time passes as long as a collector
\* listens, and a collector whose 300000 ms have run out is stopped
Elapse ==
  /\ \E k \in 1..Len(sessions) : Listening(sessions[k])
  /\ now' = now + TimeStep
  /\ sessions' = [k \in 1..Len(sessions) |->
                    IF now' >= sessions[k].created + SessionTTL
                      THEN [sessions[k] EXCEPT !.ended = TRUE]
                      ELSE sessions[k]]
  /\ last' = Event("tick")
  /\ UNCHANGED <<guild_settings, messages, nInteractions, calls, members, reactions, cron>>

\* the /settings invocations the model draws from: (guild, operator, channel)
Invocations ==
  {<<"g1", "u1", "c1">>, <<"g1", "u2", "c1">>, <<"g1", "u1", "c2">>, <<"g2", "u1", "c3">>}

Next ==
  \/ \E inv \in Invocations : SettingsCommand(inv[1], inv[2], inv[3])
  \/ \E t \in 1..Len(sessions), customId \in CustomIds :
       \E value \in (IF customId = "set_log_channel"
                       THEN ChannelsOf(sessions[t].guild) ELSE {""}) :
         ComponentInteraction(t, customId, value)
  \/ \E k \in 1..Len(sessions) : ReplyResolved(k)
  \/ \E k \in 1..Len(sessions), first \in BOOLEAN : ReplyRejected(k, first)
  \/ Tick

Spec == Init /\ [][Next]_vars

\* the sessions with their timers: a timer that is due fires (the event loop runs it)
NextTimers ==
  \/ \E inv \in Invocations : SettingsCommand(inv[1], inv[2], inv[3])
  \/ \E t \in 1..Len(sessions), customId \in CustomIds :
       \E value \in (IF customId = "set_log_channel"
                       THEN ChannelsOf(sessions[t].guild) ELSE {""}) :
         ComponentInteraction(t, customId, value)
  \/ \E k \in 1..Len(sessions) : ReplyResolved(k)
  \/ \E k \in 1..Len(sessions), first \in BOOLEAN : ReplyRejected(k, first)
  \/ Elapse

SpecTimers == Init /\ [][NextTimers]_vars /\ WF_vars(Elapse)

----------------------------------------------------------------------------
(* The store's functions called directly, and message ingestion *)

\* getGuildSettings(g)
StoreGet(g) ==
  /\ LET r == getGuildSettings(guild_settings, g) IN
     /\ guild_settings' = r.table
     /\ last' = [Event("get") EXCEPT !.guild = g, !.settings = r.settings,
                                     !.threw = r.threw]
  /\ UNCHANGED <<messages, sessions, nInteractions, now, calls, members, reactions, cron>>

\* updateGuildSettings(g, updates)
StoreUpdate(g, updates) ==
  /\ guild_settings' = updateGuildSettings(guild_settings, g, updates)
  /\ last' = [Event("update") EXCEPT !.guild = g, !.updates = updates]
  /\ UNCHANGED <<messages, sessions, nInteractions, now, calls, members, reactions, cron>>

\* trackMessage(g, u, ch, len) at the current instant
StoreTrack(g, u, ch, len) ==
  /\ Len(messages) < MaxMessages
  /\ messages' = trackMessage(messages, g, u, ch, len, now)
  /\ last' = [Event("track") EXCEPT !.guild = g, !.user = u, !.channel = ch,
                                    !.len = len]
  /\ UNCHANGED <<guild_settings, sessions, nInteractions, now, calls, members, reactions, cron>>

\* mutant: the handler records without looking at the settings
MessageGateOpen(settings, ch) == TRUE

\* mutant: the handler looks at the tracked channels only
MessageGateTracked(settings, ch) ==
  LET trackedChannels == trackedChannelsOf(settings) IN
  ~(Len(trackedChannels) > 0 /\ ~includes(trackedChannels, ch))

\* the two settings checks of the MessageCreate handler
MessageGate(settings, ch) ==
  /\ TruthyInt(settings.enabled)
  /\ LET trackedChannels == trackedChannelsOf(settings) IN
     ~(Len(trackedChannels) > 0 /\ ~includes(trackedChannels, ch))

\* client.on(Events.MessageCreate): g = "" is a message outside any guild
MessageCreate(bot, g, u, ch, len) ==
  /\ Len(messages) < MaxMessages
  /\ IF bot \/ g = ""
       THEN UNCHANGED <<guild_settings, messages>>
       ELSE LET r == getGuildSettings(guild_settings, g) IN
            /\ guild_settings' = r.table
            /\ messages' = IF ~r.threw /\ MessageGate(r.settings, ch)
                             THEN trackMessage(messages, g, u, ch, len, now)
                             ELSE messages
  /\ last' = [Event("message") EXCEPT
                !.bot = bot, !.guild = g, !.user = u, !.channel = ch, !.len = len]
  /\ UNCHANGED <<sessions, nInteractions, now, calls, members, reactions, cron>>

\* the partial updates the model draws from
Updates ==
  {[enabled |-> 0], [enabled |-> 1],
   [tracked_channels |-> "[\"c1\"]"],
   [notifications_enabled |-> 0, log_channel_id |-> "c1"]}

NextStore ==
  \/ \E g \in Guilds : StoreGet(g)
  \/ \E g \in Guilds, updates \in Updates : StoreUpdate(g, updates)
  \/ \E g \in Guilds, len \in Lengths : \E ch \in ChannelsOf(g) :
       StoreTrack(g, "u1", ch, len)
  \/ \E bot \in BOOLEAN, g \in Guilds \cup {""}, len \in Lengths :
       \E ch \in (IF g = "" THEN {"dm"} ELSE ChannelsOf(g)) :
         MessageCreate(bot, g, "u1", ch, len)
  \/ Tick

SpecStore == Init /\ [][NextStore]_vars

\* the settings sessions next to message ingestion
NextFlow ==
  \/ \E inv \in Invocations : SettingsCommand(inv[1], inv[2], inv[3])
  \/ \E t \in 1..Len(sessions), customId \in CustomIds :
       \E value \in (IF customId = "set_log_channel"
                       THEN ChannelsOf(sessions[t].guild) ELSE {""}) :
         ComponentInteraction(t, customId, value)
  \/ \E k \in 1..Len(sessions) : ReplyResolved(k)
  \/ \E k \in 1..Len(sessions), first \in BOOLEAN : ReplyRejected(k, first)
  \/ \E bot \in BOOLEAN, g \in Guilds, len \in Lengths :
       \E ch \in ChannelsOf(g) : MessageCreate(bot, g, "u2", ch, len)

SpecFlow == Init /\ [][NextFlow]_vars

----------------------------------------------------------------------------
(* getGuildSettings statement by statement, on two connections to the      *)
(* database file                                                           *)

\* let settings = stmt.get(guildId); a row that is found is returned at once
RaceSelect(p, g) ==
  /\ calls[p].pc \in {"idle", "returned"}
  /\ LET found == SelectSettings(guild_settings, g) IN
     calls' = [calls EXCEPT ![p] =
                 IF Len(found) > 0
                   THEN [pc |-> "returned", guild |-> g, threw |-> FALSE,
                         settings |-> found[1]]
                   ELSE [pc |-> "selected", guild |-> g, threw |-> FALSE,
                         settings |-> DefaultsLiteral(g)]]
  /\ last' = [Event("select") EXCEPT !.proc = p, !.guild = g]
  /\ UNCHANGED <<guild_settings, messages, sessions, nInteractions, now, members, reactions, cron>>

\* if (!settings) { INSERT ...; settings = {...} }; return settings
RaceInsert(p) ==
  /\ calls[p].pc = "selected"
  /\ LET ins == InsertSettings(guild_settings, calls[p].guild) IN
     /\ guild_settings' = ins.table
     /\ calls' = [calls EXCEPT ![p].pc = "returned", ![p].threw = ins.threw]
     /\ last' = [Event("insert") EXCEPT !.proc = p, !.guild = calls[p].guild,
                                        !.threw = ins.threw]
  /\ UNCHANGED <<messages, sessions, nInteractions, now, members, reactions, cron>>

NextRace ==
  \/ \E p \in Procs, g \in Guilds : RaceSelect(p, g)
  \/ \E p \in Procs : RaceInsert(p)

SpecRace == Init /\ [][NextRace]_vars

----------------------------------------------------------------------------
(* The aggregation queries run on a given event log *)

\* the instant of the run: day 64 of the epoch, 07:30:00 UTC
RunInstant == (64 * 24 * 60 * 60 + 7 * 60 * 60 + 30 * 60) * (1000 \div ClockUnit)

\* how long before the run the events of the log were recorded: on both sides of
\* each window's bounds
Ages ==
  {0, timeRange("week"), timeRange("week") + 1,
   timeRange("week") * 2, timeRange("week") * 2 + 1,
   timeRange("month"), timeRange("month") + 1,
   timeRange("month") * 2, timeRange("month") * 2 + 1}

\* who wrote where: (guild, author, channel)
Authors ==
  {<<"g1", "u1", "c1">>, <<"g1", "u2", "c1">>, <<"g1", "u1", "c2">>, <<"g2", "u1", "c3">>}

MessageRows ==
  {[guild_id |-> a[1], user_id |-> a[2], channel_id |-> a[3],
    message_length |-> 5, timestamp |-> RunInstant - age] : a \in Authors, age \in Ages}

\* the logs of up to MaxLog rows, stamped in the order they were inserted
RECURSIVE LogsUpTo(_)
LogsUpTo(n) ==
  IF n = 0 THEN {<<>>}
  ELSE LET shorter == LogsUpTo(n - 1)
       IN shorter \cup
          {Append(log, r) : log \in {l \in shorter : Len(l) = n - 1},
                            r \in MessageRows}

SortedLogs ==
  {log \in LogsUpTo(MaxLog) :
     \A n \in 1..(Len(log) - 1) : log[n].timestamp <= log[n + 1].timestamp}

\* a log of n authors of g1, author k with 1 + k % 3 messages just before the run
RECURSIVE RankLog(_)
RankLog(n) ==
  IF n = 0 THEN <<>>
  ELSE RankLog(n - 1) \o
       [j \in 1..(1 + (n % 3)) |->
          [guild_id |-> "g1", user_id |-> IdOrder[3 + n],
           channel_id |-> IF n % 2 = 0 THEN "c1" ELSE "c2",
           message_length |-> 5, timestamp |-> RunInstant]]

MessageLogs == SortedLogs \cup {RankLog(n) : n \in {TopLimit, TopLimit + 1, TopLimit + 2}}

MemberLogs ==
  {<<>>,
   <<trackMember(<<>>, "g1", "u1", "join", RunInstant - timeRange("week") - 1)[1],
     trackMember(<<>>, "g2", "u2", "join", RunInstant)[1]>>,
   <<trackMember(<<>>, "g1", "u1", "join", RunInstant - timeRange("week"))[1],
     trackMember(<<>>, "g1", "u1", "leave", RunInstant)[1]>>}

InitAnalytics ==
  /\ guild_settings = <<>>
  /\ messages \in MessageLogs
  /\ members \in MemberLogs
  /\ reactions = <<>>
  /\ sessions = <<>>
  /\ nInteractions = 0
  /\ now = RunInstant
  /\ calls = [p \in Procs |-> NoCall]
  /\ cron = NoRun
  /\ last = [op |-> "init"]

\* getAnalytics(g, period) at the current instant
Summarize(g, period, tie) ==
  /\ last' = [op |-> "summarize", guild |-> g, period |-> period,
              analytics |-> getAnalytics(messages, members, g, period, now, tie)]
  /\ UNCHANGED <<guild_settings, messages, members, reactions, sessions, nInteractions, now,
                 calls, cron>>

\* getPreviousAnalytics(g, period) at the current instant
SummarizePrevious(g, period) ==
  /\ last' = [op |-> "previous", guild |-> g, period |-> period,
              previous |-> getPreviousAnalytics(messages, g, period, now)]
  /\ UNCHANGED <<guild_settings, messages, members, reactions, sessions, nInteractions, now,
                 calls, cron>>

Periods == {"week", "month"}
Ties == {"asc", "desc"}

NextAnalytics ==
  \/ \E g \in Guilds, period \in Periods, tie \in Ties : Summarize(g, period, tie)
  \/ \E g \in Guilds, period \in Periods : SummarizePrevious(g, period)

SpecAnalytics == InitAnalytics /\ [][NextAnalytics]_vars

\* how many instants pass between the Date.now() of getAnalytics and the Date.now()
\* of getPreviousAnalytics, which a report calls one after the other
Delays == {0, 1}

\* const analytics = getAnalytics(g, period); const previous =
\* getPreviousAnalytics(g, period): each call reads the clock itself
ReportSummaries(g, period, delay) ==
  /\ now + delay <= RunInstant + MaxTicks
  /\ now' = now + delay
  /\ last' = [op |-> "report", guild |-> g, period |-> period,
              first |-> now, second |-> now + delay,
              analytics |-> getAnalytics(messages, members, g, period, now, "asc"),
              previous |-> getPreviousAnalytics(messages, g, period, now + delay)]
  /\ UNCHANGED <<guild_settings, messages, members, reactions, sessions, nInteractions,
                 calls, cron>>

NextClock ==
  \E g \in Guilds, period \in Periods, delay \in Delays : ReportSummaries(g, period, delay)

SpecClock == InitAnalytics /\ [][NextClock]_vars

----------------------------------------------------------------------------
(* The weekly job: cron.schedule("0 9 * * 1") and sendWeeklyReport *)

\* client.guilds.cache, in the order forEach visits it
GuildCache == <<"g1", "g2">>

\* mutant: the report channel is not looked up
reportGateUnresolved(settings, g) ==
  /\ TruthyInt(settings.notifications_enabled)
  /\ TruthyText(settings.log_channel_id)

\* the two early returns of sendWeeklyReport: notifications on, a log channel set,
\* and guild.channels.cache.get finds it
reportGate(settings, g) ==
  /\ TruthyInt(settings.notifications_enabled)
  /\ TruthyText(settings.log_channel_id)
  /\ settings.log_channel_id \in ChannelsOf(g)

\* sendWeeklyReport(guild) up to its first await: it returns (skipped), or the
\* aggregation throws and the promise it returned is rejected, or the report is
\* pending on the lookups, the chart and the send
sendWeeklyReportStart(st, g, aggregationFaults, t, tie) ==
  LET r == getGuildSettings(st.table, g) IN
  IF ~reportGate(r.settings, g)
    THEN [st EXCEPT !.table = r.table, !.status[g] = "skipped"]
  ELSE IF g \in aggregationFaults
    THEN [st EXCEPT !.table = r.table, !.status[g] = "rejected"]
  ELSE [st EXCEPT !.table = r.table, !.status[g] = "pending",
                  !.job[g] = [analytics |-> getAnalytics(messages, members, g, "week", t, tie),
                              previous |-> getPreviousAnalytics(messages, g, "week", t)]]

\* client.guilds.cache.forEach((guild) => { sendWeeklyReport(guild) })
RECURSIVE forEachGuild(_, _, _, _, _)
forEachGuild(st, n, aggregationFaults, t, tie) ==
  IF n > Len(GuildCache) THEN st
  ELSE forEachGuild(sendWeeklyReportStart(st, GuildCache[n], aggregationFaults, t, tie),
                    n + 1, aggregationFaults, t, tie)

\* the cron callback: every guild's sendWeeklyReport is started, none is awaited
CronFire(aggregationFaults, tie) ==
  /\ cron.process = "running"
  /\ cron.runs < MaxRuns
  /\ \A g \in Guilds : cron.status[g] # "pending"
  /\ LET st == forEachGuild([table |-> guild_settings,
                             status |-> [g \in Guilds |-> "idle"],
                             job |-> [g \in Guilds |-> NoJob]],
                            1, aggregationFaults, now, tie)
     IN /\ guild_settings' = st.table
        /\ cron' = [process |-> "running", runs |-> cron.runs + 1,
                    status |-> st.status, job |-> st.job]
        /\ last' = [op |-> "cron", faults |-> aggregationFaults]
  /\ UNCHANGED <<messages, members, reactions, sessions, nInteractions, now, calls>>

\* the rest of sendWeeklyReport(g): the names are looked up, the embed is built, and
\* in the try block the chart is rendered and the report sent; a failure of either
\* is caught and logged
WeeklyDeliver(g, resolvableUsers, fault) ==
  /\ cron.process = "running"
  /\ cron.status[g] = "pending"
  /\ cron' = [cron EXCEPT !.status[g] =
                CASE fault = "render" -> "renderFailed"
                  [] fault = "send" -> "sendFailed"
                  [] OTHER -> "sent"]
  /\ last' = [op |-> "weekly", guild |-> g, fault |-> fault,
              analytics |-> cron.job[g].analytics,
              previous |-> cron.job[g].previous,
              resolvableUsers |-> resolvableUsers,
              resolvableChannels |-> {},
              payload |-> weeklyPayload(cron.job[g].analytics, cron.job[g].previous,
                                        resolvableUsers),
              attempted |-> fault # "render",
              failed |-> FALSE]
  /\ UNCHANGED <<guild_settings, messages, members, reactions, sessions, nInteractions, now, calls>>

\* nothing handles the rejected promise of a sendWeeklyReport whose aggregation
\* threw: where the runtime raises an unhandled rejection as an uncaught exception
\* (the default of Node.js since version 15) the process ends, and with it every
\* report that is still pending; where it only warns, this step never happens
UnhandledRejection ==
  /\ cron.process = "running"
  /\ \E g \in Guilds : cron.status[g] = "rejected"
  /\ cron' = [cron EXCEPT !.process = "exited"]
  /\ last' = [op |-> "exit"]
  /\ UNCHANGED <<guild_settings, messages, members, reactions, sessions, nInteractions, now, calls>>

\* a channel that has been deleted since it was chosen
Deleted == "c0"

\* the rows a guild can have before a run: notifications on or off, and no log
\* channel, one of its channels, or a deleted one
SettingsRows(g) ==
  {[DefaultRow(g) EXCEPT !.notifications_enabled = n, !.log_channel_id = l] :
     n \in {0, 1}, l \in {Null, Deleted} \cup ChannelsOf(g)}

\* the settings tables before a run: each guild with a row or without
SettingsTables ==
  {t1 \o t2 : t1 \in {<<>>} \cup {<<r>> : r \in SettingsRows("g1")},
              t2 \in {<<>>} \cup {<<r>> : r \in SettingsRows("g2")}}

FaultKinds == {"none", "render", "send"}

\* the sets of users the directory still knows
ResolvableUsers == {{}, {"u1", "u4", "u6"}, {IdOrder[n] : n \in 4..Len(IdOrder)}}

InitCron ==
  /\ guild_settings \in SettingsTables
  /\ messages \in {<<>>, RankLog(3)}
  /\ members = <<>>
  /\ reactions = <<>>
  /\ sessions = <<>>
  /\ nInteractions = 0
  /\ now = RunInstant
  /\ calls = [p \in Procs |-> NoCall]
  /\ cron = NoRun
  /\ last = [op |-> "init"]

NextCron ==
  \/ \E aggregationFaults \in SUBSET Guilds, tie \in Ties :
       CronFire(aggregationFaults, tie)
  \/ \E g \in Guilds, resolvableUsers \in ResolvableUsers, fault \in FaultKinds :
       WeeklyDeliver(g, resolvableUsers, fault)
  \/ UnhandledRejection

SpecCron == InitCron /\ [][NextCron]_vars

----------------------------------------------------------------------------
(* The reaction and membership handlers, and every operation on the tables  *)
(* together                                                                 *)

\* client.on(Events.MessageReactionAdd): g = "" is a reaction outside any guild
MessageReactionAdd(bot, g, u, emoji) ==
  /\ Len(reactions) < MaxReactions
  /\ reactions' = IF bot \/ g = "" THEN reactions
                                   ELSE trackReaction(reactions, g, u, emoji, now)
  /\ last' = [op |-> "reaction", bot |-> bot, guild |-> g, user |-> u, emoji |-> emoji]
  /\ UNCHANGED <<guild_settings, messages, members, sessions, nInteractions, now, calls,
                 cron>>

\* client.on(Events.GuildMemberAdd)
GuildMemberAdd(bot, g, u) ==
  /\ Len(members) < MaxMembers
  /\ members' = trackMember(members, g, u, "join", now)
  /\ last' = [op |-> "member", bot |-> bot, guild |-> g, user |-> u, action |-> "join"]
  /\ UNCHANGED <<guild_settings, messages, reactions, sessions, nInteractions, now, calls,
                 cron>>

\* client.on(Events.GuildMemberRemove)
GuildMemberRemove(bot, g, u) ==
  /\ Len(members) < MaxMembers
  /\ members' = trackMember(members, g, u, "leave", now)
  /\ last' = [op |-> "member", bot |-> bot, guild |-> g, user |-> u, action |-> "leave"]
  /\ UNCHANGED <<guild_settings, messages, reactions, sessions, nInteractions, now, calls,
                 cron>>

\* a text channel of the guild
AChannelOf(g) == IF g = "g1" THEN "c1" ELSE "c3"

\* the tables before the first event: no row at all; tracking off and a log channel
\* for the weekly report; tracked channels that leave out the guild's channel
InitLog ==
  /\ guild_settings \in
       {<<>>,
        <<[DefaultRow("g1") EXCEPT !.enabled = 0, !.log_channel_id = "c1"]>>,
        <<DefaultRow("g2"),
          [DefaultRow("g1") EXCEPT !.tracked_channels = "[\"c2\",\"c3\"]"]>>}
  /\ messages = <<>>
  /\ members = <<>>
  /\ reactions = <<>>
  /\ sessions = <<>>
  /\ nInteractions = 0
  /\ now \in {RunInstant - 1, RunInstant}
  /\ calls = [p \in Procs |-> NoCall]
  /\ cron = NoRun
  /\ last = [op |-> "init"]

\* every operation that works on the tables, for the guild g1 (the weekly job
\* visits every guild)
NextLog ==
  \/ \E bot \in BOOLEAN : MessageCreate(bot, "g1", "u1", "c1", 5)
  \/ \E bot \in BOOLEAN, g \in {"g1", ""} : MessageReactionAdd(bot, g, "u1", "+1")
  \/ \E bot \in BOOLEAN : GuildMemberAdd(bot, "g1", "u2")
  \/ GuildMemberRemove(FALSE, "g1", "u2")
  \/ StoreTrack("g1", "u1", "c1", 5)
  \/ Summarize("g1", "week", "asc")
  \/ SummarizePrevious("g1", "week")
  \/ StoreGet("g1")
  \/ StoreUpdate("g1", [enabled |-> 0])
  \/ Len(sessions) = 0 /\ SettingsCommand("g1", "u1", "c1")
  \/ \E t \in 1..Len(sessions) : ComponentInteraction(t, "toggle_tracking", "")
  \/ \E k \in 1..Len(sessions) : ReplyResolved(k)
  \/ \E k \in 1..Len(sessions) : ReplyRejected(k, TRUE)
  \/ CronFire({}, "asc")
  \/ \E g \in Guilds : WeeklyDeliver(g, {}, "none")

SpecLog == InitLog /\ [][NextLog]_vars

\* two guilds side by side: a log that is empty or has a message of each guild in
\* the last week, a members table that is empty or has a join of each guild
InitTenants ==
  /\ guild_settings = <<>>
  /\ messages \in
       {<<>>,
        <<trackMessage(<<>>, "g1", "u1", "c1", 5, RunInstant - 2)[1],
          trackMessage(<<>>, "g2", "u1", "c3", 5, RunInstant - 1)[1]>>}
  /\ members \in {<<>>, <<trackMember(<<>>, "g2", "u2", "join", RunInstant - 1)[1]>>}
  /\ reactions = <<>>
  /\ sessions = <<>>
  /\ nInteractions = 0
  /\ now = RunInstant
  /\ calls = [p \in Procs |-> NoCall]
  /\ cron = NoRun
  /\ last = [op |-> "init"]

\* the operations of each guild: events, settings updates, session actions, summaries
NextTenants ==
  \/ \E g \in Guilds : MessageCreate(FALSE, g, "u1", AChannelOf(g), 5)
  \/ \E g \in Guilds : GuildMemberAdd(FALSE, g, "u2")
  \/ \E g \in Guilds : StoreUpdate(g, [enabled |-> 0])
  \/ \E g \in Guilds : SettingsCommand(g, "u1", AChannelOf(g))
  \/ \E t \in 1..Len(sessions), customId \in {"toggle_tracking", "set_log_channel"} :
       ComponentInteraction(t, customId, IF customId = "set_log_channel"
                                           THEN sessions[t].channel ELSE "")
  \/ \E k \in 1..Len(sessions) : ReplyResolved(k)
  \/ \E g \in Guilds : Summarize(g, "week", "asc")
  \/ \E g \in Guilds : SummarizePrevious(g, "week")

SpecTenants == InitTenants /\ [][NextTenants]_vars

----------------------------------------------------------------------------
(* The slash commands behind the InteractionCreate handler *)

Commands == {"report", "stats", "settings"}

\* the step of a command the environment lets fail (a rejected request to Discord, a
\* throwing store, a failing chart render), or none; the execution of /settings
\* that does not fail is SettingsCommand
CommandFaults(cmd) ==
  CASE cmd = "report" -> {"none", "defer", "aggregate", "render", "edit"}
    [] cmd = "stats" -> {"none", "defer", "aggregate", "edit"}
    [] cmd = "settings" -> {"store", "reply"}

\* interaction.options.getString("type") || "overview"; null when the option is left out
Types == {"null", "overview", "users", "channels", "heatmap"}

\* command.execute(interaction) of /report and /stats: whether it threw, whether the
\* interaction was deferred by then, and the payload of editReply when it did not
\* (both summaries are taken at the instant t; ReportSummaries takes the two clock
\* reads apart)
executeReport(cmd, g, period, type, resolvableUsers, resolvableChannels, fault, t, tie) ==
  LET analytics == getAnalytics(messages, members, g, period, t, tie)
      previous == getPreviousAnalytics(messages, g, period, t)
      payload == IF cmd = "stats"
                   THEN statsPayload(analytics, resolvableUsers, resolvableChannels)
                   ELSE reportPayload(type, analytics, previous,
                                      resolvableUsers, resolvableChannels)
  IN [failed |-> fault # "none",
      deferred |-> fault # "defer",
      replied |-> FALSE,
      analytics |-> analytics,
      previous |-> previous,
      payload |-> IF fault = "none" THEN payload ELSE NoPayload]

\* the content of the catch block's message
CommandError == "There was an error executing this command."

\* mutant: the catch block always replies
ackMethodReply(replied, deferred) == "reply"

\* interaction.replied || interaction.deferred ? followUp : reply
ackMethod(replied, deferred) == IF replied \/ deferred THEN "followUp" ELSE "reply"

\* client.on(Events.InteractionCreate) for a chat input command: execute in a try
\* block; in the catch block one message, by followUp or reply, awaited without a
\* try of its own (ackFails: that request is rejected as well)
InteractionCreate(cmd, g, period, type, directory, fault, ackFails, tie) ==
  /\ IF cmd = "settings"
       THEN LET r == getGuildSettings(guild_settings, g)
            IN /\ guild_settings' = IF fault = "store" THEN guild_settings ELSE r.table
               /\ last' = [op |-> "command", cmd |-> cmd, guild |-> g, fault |-> fault,
                           failed |-> TRUE, deferred |-> FALSE, replied |-> FALSE,
                           analytics |-> NoJob.analytics, previous |-> NoJob.previous,
                           resolvableUsers |-> {}, resolvableChannels |-> {},
                           payload |-> NoPayload,
                           acks |-> IF ~ackFails
                                      THEN <<[method |-> ackMethod(FALSE, FALSE),
                                              content |-> CommandError,
                                              ephemeral |-> TRUE]>>
                                      ELSE <<>>,
                           propagated |-> ackFails]
       ELSE LET x == executeReport(cmd, g, period, type, directory.users,
                                   directory.channels, fault, now, tie)
            IN /\ UNCHANGED guild_settings
               /\ last' = [op |-> "command", cmd |-> cmd, guild |-> g, fault |-> fault,
                           failed |-> x.failed, deferred |-> x.deferred,
                           replied |-> x.replied,
                           analytics |-> x.analytics, previous |-> x.previous,
                           resolvableUsers |-> directory.users,
                           resolvableChannels |-> directory.channels,
                           payload |-> x.payload,
                           acks |-> IF x.failed /\ ~ackFails
                                      THEN <<[method |-> ackMethod(x.replied, x.deferred),
                                              content |-> CommandError,
                                              ephemeral |-> TRUE]>>
                                      ELSE <<>>,
                           propagated |-> x.failed /\ ackFails]
  /\ UNCHANGED <<messages, members, reactions, sessions, nInteractions, now, calls, cron>>

\* the change the overview and the weekly report compute from two totals
ChangeShown(cur, prev) ==
  /\ last' = [op |-> "change", cur |-> cur, prev |-> prev, change |-> changeOf(cur, prev)]
  /\ UNCHANGED <<guild_settings, messages, members, reactions, sessions, nInteractions, now,
                 calls, cron>>

\* generateHeatmap(hourlyActivity): the data of the chart it renders
GenerateHeatmap(hourlyActivity) ==
  /\ last' = [op |-> "heatmap", input |-> hourlyActivity,
              series |-> heatmapCounts(hourlyActivity), labels |-> heatmapLabels]
  /\ UNCHANGED <<guild_settings, messages, members, reactions, sessions, nInteractions, now,
                 calls, cron>>

\* the previous totals a change is computed against
PrevTotals == {0, 1, 3, 16, 80}

\* sparse hourly inputs: up to two entries with distinct hours, in either order, and
\* the input with every hour
HourlyInputs ==
  {<<>>}
    \cup {<<[hour |-> h, count |-> c]>> : h \in {0, 7, 23}, c \in {1, 3}}
    \cup {<<[hour |-> hs[1], count |-> 2], [hour |-> hs[2], count |-> c]>> :
            hs \in {x \in {0, 7, 23} \X {0, 12, 23} : x[1] # x[2]}, c \in {1, 3}}
    \cup {[n \in 1..24 |-> [hour |-> n - 1, count |-> n]]}

\* what the directory still knows: nothing, some users and channels, or all
Directories ==
  {[users |-> {}, channels |-> {}],
   [users |-> {"u1", "u4", "u6"}, channels |-> {"c1"}],
   [users |-> {IdOrder[n] : n \in 4..Len(IdOrder)}, channels |-> {"c1", "c2", "c3"}]}

\* the options of a command: /stats and /settings have none
OptionsOf(cmd) ==
  IF cmd = "report" THEN {<<period, type>> : period \in Periods, type \in Types}
                    ELSE {<<"week", "null">>}

\* 3 messages of u1 in the last 7 days and none in the 7 days before
ScenarioLog ==
  [n \in 1..3 |-> [guild_id |-> "g1", user_id |-> "u1", channel_id |-> "c1",
                   message_length |-> 5, timestamp |-> RunInstant - n]]

\* 2 messages in the last 7 days, 3 in the 7 days before
DeclineLog ==
  [n \in 1..5 |-> [guild_id |-> "g1", user_id |-> IF n = 1 THEN "u2" ELSE "u1",
                   channel_id |-> IF n < 3 THEN "c2" ELSE "c1",
                   message_length |-> 5,
                   timestamp |-> IF n < 4 THEN RunInstant - timeRange("week") - 1
                                          ELSE RunInstant]]

ReportLogs == {ScenarioLog, DeclineLog, RankLog(6)}

InitReport ==
  /\ guild_settings =
       <<[DefaultRow("g1") EXCEPT !.log_channel_id = "c1"], DefaultRow("g2")>>
  /\ messages \in ReportLogs
  /\ members = <<>>
  /\ reactions = <<>>
  /\ sessions = <<>>
  /\ nInteractions = 0
  /\ now = RunInstant
  /\ calls = [p \in Procs |-> NoCall]
  /\ cron = NoRun
  /\ last = [op |-> "init"]

\* the commands with their inputs; an execution that fails early is drawn with one
\* choice of the inputs it never gets to use
NextReport ==
  \/ \E cmd \in Commands :
       \E fault \in CommandFaults(cmd) :
         \E options \in (IF fault = "none" THEN OptionsOf(cmd) ELSE {<<"week", "null">>}),
            directory \in (IF fault = "none" THEN Directories
                                             ELSE {[users |-> {}, channels |-> {}]}),
            ackFails \in (IF fault = "none" THEN {FALSE} ELSE BOOLEAN) :
           InteractionCreate(cmd, "g1", options[1], options[2], directory, fault,
                             ackFails, "asc")
  \/ CronFire({}, "asc")
  \/ \E g \in Guilds, resolvableUsers \in ResolvableUsers :
       WeeklyDeliver(g, resolvableUsers, "none")

SpecReport == InitReport /\ [][NextReport]_vars

\* the two computations of the reports on their own inputs
NextCharts ==
  \/ \E cur \in 0..MaxTotal, prev \in PrevTotals : ChangeShown(cur, prev)
  \/ \E hourlyActivity \in HourlyInputs : GenerateHeatmap(hourlyActivity)

SpecCharts == InitReport /\ [][NextCharts]_vars

----------------------------------------------------------------------------
(* Properties *)

\* the guild of the session whose view carried the component of the step's interaction
TargetGuild == sessions[last'.target].guild

\* the column each component is for
TargetColumn(customId) ==
  CASE customId = "toggle_tracking" -> "enabled"
    [] customId = "toggle_notifications" -> "notifications_enabled"
    [] customId = "set_log_channel" -> "log_channel_id"

\* the session whose handler wrote last in the step
LastCollector == last'.collected[Len(last'.collected)]

\* two settings objects hold the same values (an absent report channel is
\* NULL in a row and undefined in the object literal)
SameSettings(a, b) ==
  /\ a.guild_id = b.guild_id
  /\ a.enabled = b.enabled
  /\ a.notifications_enabled = b.notifications_enabled
  /\ a.tracked_channels = b.tracked_channels
  /\ TruthyText(a.log_channel_id) = TruthyText(b.log_channel_id)
  /\ TruthyText(a.log_channel_id) => a.log_channel_id = b.log_channel_id

\* C1: an action on the view of a session whose 5 minutes have run out leaves the
\* community's settings row as it was.
C1_LateActionLeavesStore ==
  [][(last'.op = "component" /\ sessions[last'.target].ended)
       => SelectSettings(guild_settings', TargetGuild)
            = SelectSettings(guild_settings, TargetGuild)]_vars

\* C2: an action handled by an open session leaves every column of the community's
\* row but the targeted one as it was (enabled for toggle_tracking,
\* notifications_enabled for toggle_notifications, log_channel_id for
\* set_log_channel), and the targeted column holds the value the handler computed.
C2_ActionChangesOnlyTargetedField ==
  [][(last'.op = "component" /\ Len(last'.collected) > 0)
       => LET before == SelectSettings(guild_settings, TargetGuild)
              after == SelectSettings(guild_settings', TargetGuild)
              col == TargetColumn(last'.customId)
          IN /\ Len(before) = 1
             /\ Len(after) = 1
             /\ \A c \in DOMAIN before[1] \ {col} : after[1][c] = before[1][c]
             /\ after[1][col] =
                  IF last'.customId = "set_log_channel"
                    THEN last'.value
                    ELSE IF sessions[LastCollector].settings[col] = 1 THEN 0 ELSE 1
             /\ \A g \in Guilds \ {TargetGuild} :
                  SelectSettings(guild_settings', g) = SelectSettings(guild_settings, g)]_vars

\* C2 witness: a set_log_channel was handled for a community whose tracking had been
\* switched off before; the row holds the chosen channel and tracking is still off.
C2_Witness ==
  /\ last.op = "component"
  /\ last.customId = "set_log_channel"
  /\ Len(last.collected) > 0
  /\ LET row == RowsOf(sessions[last.target].guild) IN
     /\ Len(row) = 1
     /\ row[1].log_channel_id = last.value
     /\ row[1].enabled = 0

\* C3 (as claimed): every toggle handled by an open session negates the stored value.
C3_ToggleNegatesStoredValue ==
  [][(last'.op = "component" /\ Len(last'.collected) > 0
        /\ last'.customId \in {"toggle_tracking", "toggle_notifications"})
       => LET col == TargetColumn(last'.customId) IN
          SelectSettings(guild_settings', TargetGuild)[1][col]
            = (IF SelectSettings(guild_settings, TargetGuild)[1][col] = 1 THEN 0 ELSE 1)]_vars

\* C3 (amended): every toggle handled by an open session negates that session's
\* cached value and stores it: after the action the stored value is the negation of
\* the cached value of the session that handled it last, and it is the negation of the
\* value stored before whenever that cached value agreed with the store.
C3_ToggleNegatesCachedValue ==
  [][(last'.op = "component" /\ Len(last'.collected) > 0
        /\ last'.customId \in {"toggle_tracking", "toggle_notifications"})
       => LET col == TargetColumn(last'.customId)
              before == SelectSettings(guild_settings, TargetGuild)[1][col]
              after == SelectSettings(guild_settings', TargetGuild)[1][col]
              cached == sessions[LastCollector].settings[col]
          IN /\ after = (IF cached = 1 THEN 0 ELSE 1)
             /\ \A j \in 1..Len(last'.collected) :
                  LET k == last'.collected[j] IN
                  sessions'[k].settings[col] = (IF sessions[k].settings[col] = 1 THEN 0 ELSE 1)
             /\ cached = before => after = (IF before = 1 THEN 0 ELSE 1)]_vars

\* C3 witness: a toggle of tracking was handled by one session while another open
\* session of the same community holds a cached value that the store no longer has.
C3_Witness ==
  /\ last.op = "component"
  /\ last.customId = "toggle_tracking"
  /\ Len(last.collected) > 0
  /\ \E j \in 1..Len(sessions) :
       /\ ~includes(last.collected, j)
       /\ ~sessions[j].ended
       /\ sessions[j].guild = sessions[last.target].guild
       /\ sessions[j].settings.enabled # RowsOf(sessions[j].guild)[1].enabled

\* C7: an interaction of another user changes nothing of a session: its handler does
\* not run (no write, no pending re-render), its cached settings and view stay, and it
\* is as open as before.
C7_ForeignActionIgnored ==
  [][last'.op = "component"
       => \A k \in 1..Len(sessions) :
            sessions[k].operator # sessions[last'.target].operator
              => /\ sessions'[k] = sessions[k]
                 /\ ~includes(last'.collected, k)
                 /\ Listening(sessions'[k]) = Listening(sessions[k])]_vars

\* C7 witness: an interaction of one user was delivered on the channel of an open
\* session of another user, and that session did not handle it.
C7_Witness ==
  /\ last.op = "component"
  /\ \E k \in 1..Len(sessions) :
       /\ sessions[k].operator # sessions[last.target].operator
       /\ sessions[k].channel = sessions[last.target].channel
       /\ ~sessions[k].ended
       /\ ~includes(last.collected, k)
       /\ Len(last.collected) > 0

\* the signal the specification asks for
SessionExpired == "session expired"

\* C8: an action on the view of a session whose 5 minutes have run out is answered
\* with a "session expired" signal and handled by nobody.
C8_LateActionGetsExpirySignal ==
  (last.op = "component" /\ sessions[last.target].ended)
    => /\ includes(last.replies, SessionExpired)
       /\ Len(last.collected) = 0

\* C4: after a getGuildSettings call the community has exactly one settings row, also
\* when the call before it was the one that created the row; no community ever has
\* more than one row, and a row that exists is still there after every operation.
C4_OneRowPerCommunity ==
  [][\A g \in Guilds :
       /\ Len(SelectSettings(guild_settings', g)) <= 1
       /\ Len(SelectSettings(guild_settings, g)) = 1
            => Len(SelectSettings(guild_settings', g)) = 1
       /\ (last'.op = "get" /\ last'.guild = g)
            => Len(SelectSettings(guild_settings', g)) = 1]_vars

\* C4 witness: a getGuildSettings call returned the stored row of a community (the row
\* was there already: a call that creates it returns the object literal), and the
\* community has one row.
C4_Witness ==
  /\ last.op = "get"
  /\ last.settings.log_channel_id = Null
  /\ Len(RowsOf(last.guild)) = 1
  /\ Len(guild_settings) = 2

C6_UpdateChangesOnlyNamedFields ==
  [][last'.op = "update"
       => /\ Len(guild_settings') = Len(guild_settings)
          /\ \A i \in 1..Len(guild_settings) :
               IF guild_settings[i].guild_id = last'.guild
                 THEN \A c \in DOMAIN guild_settings[i] :
                        guild_settings'[i][c] =
                          IF c \in DOMAIN last'.updates
                            THEN last'.updates[c] ELSE guild_settings[i][c]
                 ELSE guild_settings'[i] = guild_settings[i]]_vars

\* C6 witness: an update of two columns was applied to a community whose tracking was
\* off and whose tracked channels were set, while another community has a row.
C6_Witness ==
  /\ last.op = "update"
  /\ DOMAIN last.updates = {"notifications_enabled", "log_channel_id"}
  /\ Len(guild_settings) = 2
  /\ LET row == RowsOf(last.guild) IN
     /\ Len(row) = 1
     /\ row[1].enabled = 0
     /\ row[1].tracked_channels = "[\"c1\"]"
     /\ row[1].log_channel_id = "c1"
     /\ row[1].notifications_enabled = 0

\* the settings the MessageCreate handler reads for a community: its row, or the
\* defaults of the row the read creates
SettingsRead(g) ==
  IF Len(RowsOf(g)) > 0 THEN RowsOf(g)[1] ELSE DefaultRow(g)

\* C9: a message notification appends one row to messages exactly when the author is
\* no bot, the message has a guild, the enabled column read at that moment is true and
\* the tracked channels are empty or hold the message's channel; otherwise messages is
\* as it was.
C9_MessageRecordedIffGateOpen ==
  [][last'.op = "message"
       => LET g == last'.guild
              tracked == JSONparse(SettingsRead(g).tracked_channels)
              qualifies ==
                /\ ~last'.bot
                /\ g # ""
                /\ SettingsRead(g).enabled = 1
                /\ (Len(tracked) = 0 \/ \E n \in 1..Len(tracked) : tracked[n] = last'.channel)
          IN IF qualifies
               THEN messages' = Append(messages,
                      [guild_id |-> g, user_id |-> last'.user,
                       channel_id |-> last'.channel,
                       message_length |-> last'.len, timestamp |-> now])
               ELSE messages' = messages]_vars

\* C9 witness: a message in a tracked channel of a community with a non-empty
\* tracked-channel list was recorded.
C9_Witness ==
  /\ last.op = "message"
  /\ ~last.bot
  /\ Len(RowsOf(last.guild)) = 1
  /\ RowsOf(last.guild)[1].tracked_channels = "[\"c1\"]"
  /\ last.channel = "c1"
  /\ Len(messages) = 1
  /\ messages[1].channel_id = "c1"

\* C10: trackMessage appends exactly one row with its arguments and the current
\* instant, whatever the community's settings are, and changes no settings.
C10_TrackMessageUnconditional ==
  [][last'.op = "track"
       => /\ messages' = Append(messages,
                 [guild_id |-> last'.guild, user_id |-> last'.user,
                  channel_id |-> last'.channel,
                  message_length |-> last'.len, timestamp |-> now])
          /\ guild_settings' = guild_settings]_vars

\* C10 witness: trackMessage recorded a message of a community whose tracking is off.
C10_Witness ==
  /\ last.op = "track"
  /\ Len(RowsOf(last.guild)) = 1
  /\ RowsOf(last.guild)[1].enabled = 0
  /\ Len(messages) = 1
  /\ messages[1].guild_id = last.guild

\* the window lengths of the specification, 7 and 30 days, in instants of the clock
WindowLength(period) ==
  (IF period = "week" THEN 7 ELSE 30) * 86400 * (1000 \div ClockUnit)

\* the rows of a table that belong to community g and lie in [from, to)
EventsIn(table, g, from, to) ==
  {n \in 1..Len(table) :
     /\ table[n].guild_id = g
     /\ table[n].timestamp >= from
     /\ table[n].timestamp < to}

\* an instant later than every event
Later == RunInstant + 1

\* C13: with one value of now, the total of getAnalytics counts exactly the messages
\* of the community stamped at or after now - w, and the total of
\* getPreviousAnalytics exactly those stamped in [now - 2w, now - w): a message at
\* exactly now - w counts in the current window only, one at exactly now - 2w counts
\* in the previous window.
C13_WindowBounds ==
  /\ last.op = "summarize"
       => last.analytics.totalMessages =
            Cardinality(EventsIn(messages, last.guild,
                                 now - WindowLength(last.period), Later))
  /\ last.op = "previous"
       => last.previous.totalMessages =
            Cardinality(EventsIn(messages, last.guild,
                                 now - 2 * WindowLength(last.period),
                                 now - WindowLength(last.period)))

\* C13 witness: the log holds one message at exactly now - w and one a second older,
\* and the current total is 1.
C13_Witness ==
  /\ last.op = "summarize"
  /\ Len(messages) = 2
  /\ messages[1].guild_id = last.guild
  /\ messages[2].guild_id = last.guild
  /\ messages[1].timestamp = now - WindowLength(last.period) - 1
  /\ messages[2].timestamp = now - WindowLength(last.period)
  /\ last.analytics.totalMessages = 1

\* the properties of one ranking: ids are the listed identifiers with their counts,
\* col the column they are grouped by
RankingOk(ranking, ids, col, g, period) ==
  LET window == EventsIn(messages, g, now - WindowLength(period), Later)
      countOf(id) == Cardinality({n \in window : messages[n][col] = id})
      all == {messages[n][col] : n \in window}
  IN /\ Len(ranking) <= 10
     /\ \A k \in 1..(Len(ranking) - 1) : ranking[k].count >= ranking[k + 1].count
     /\ \A k \in 1..Len(ranking) :
          /\ ranking[k].count = countOf(ids[k])
          /\ ranking[k].count >= 1
     /\ \A j, k \in 1..Len(ranking) : j # k => ids[j] # ids[k]
     /\ \A id \in all \ {ids[k] : k \in 1..Len(ranking)} :
          \A k \in 1..Len(ranking) : countOf(id) <= ranking[k].count
     /\ Len(ranking) = IF Cardinality(all) < 10 THEN Cardinality(all) ELSE 10

\* C14: topUsers and topChannels have at most 10 entries each, counts that do not
\* increase along the sequence, every listed identifier with at least one message of
\* the community in the window and its count equal to the number of those messages,
\* and no unlisted identifier with a count greater than a listed one.
C14_RankingsOrderedAndCut ==
  last.op = "summarize"
    => /\ RankingOk(last.analytics.topUsers,
                    [k \in 1..Len(last.analytics.topUsers) |->
                       last.analytics.topUsers[k].user_id],
                    "user_id", last.guild, last.period)
       /\ RankingOk(last.analytics.topChannels,
                    [k \in 1..Len(last.analytics.topChannels) |->
                       last.analytics.topChannels[k].channel_id],
                    "channel_id", last.guild, last.period)

\* C14 witness: the window holds messages of more than 10 authors; 10 are listed and
\* an author with as many messages as the last listed one is left out.
C14_Witness ==
  /\ last.op = "summarize"
  /\ Len(last.analytics.topUsers) = 10
  /\ \E n \in 1..Len(messages) :
       /\ messages[n].guild_id = last.guild
       /\ \A k \in 1..10 : last.analytics.topUsers[k].user_id # messages[n].user_id
  /\ last.analytics.topUsers[1].count > last.analytics.topUsers[10].count

\* C15: for a community with no message and no membership event at or after
\* now - w, getAnalytics returns zero totals and empty rankings and series; for a
\* community with no message in [now - 2w, now - w), getPreviousAnalytics returns 0.
\* Both return normally.
C15_EmptyWindowGivesZeros ==
  /\ (/\ last.op = "summarize"
      /\ EventsIn(messages, last.guild, now - WindowLength(last.period), Later) = {}
      /\ EventsIn(members, last.guild, now - WindowLength(last.period), Later) = {})
       => /\ last.analytics.totalMessages = 0
          /\ last.analytics.newMembers = 0
          /\ last.analytics.leftMembers = 0
          /\ last.analytics.topUsers = <<>>
          /\ last.analytics.topChannels = <<>>
          /\ last.analytics.dailyActivity = <<>>
          /\ last.analytics.hourlyActivity = <<>>
  /\ (/\ last.op = "previous"
      /\ EventsIn(messages, last.guild, now - 2 * WindowLength(last.period),
                  now - WindowLength(last.period)) = {})
       => last.previous.totalMessages = 0

\* C15 witness: the summary of a community whose only events are older than the
\* window, while another community has events inside it, is all zero.
C15_Witness ==
  /\ last.op = "summarize"
  /\ last.analytics.totalMessages = 0
  /\ last.analytics.newMembers = 0
  /\ \E n \in 1..Len(messages) :
       messages[n].guild_id = last.guild
         /\ messages[n].timestamp < now - WindowLength(last.period)
  /\ \E n \in 1..Len(messages) :
       messages[n].guild_id # last.guild
         /\ messages[n].timestamp >= now - WindowLength(last.period)
  /\ \E n \in 1..Len(members) :
       members[n].guild_id = last.guild
         /\ members[n].timestamp < now - WindowLength(last.period)

C12_FailureIsolated ==
  \A g \in Guilds : cron.status[g] = "pending" => cron.process = "running"

\* C16 (as claimed): the change is the number 0 when prev = 0, and otherwise
\* (cur - prev) / prev * 100 rounded to one decimal place: a tenth nearest to the
\* exact quotient, with the sign of cur - prev, and when the quotient lies exactly
\* halfway between two tenths the one that rounding half away from zero or rounding
\* half to even gives.
C16_ChangeRoundedToOneDecimal ==
  last.op = "change"
    => IF last.prev = 0
         THEN last.change.kind = "number" /\ last.change.tenths = 0
         ELSE LET m == IF last.cur >= last.prev THEN last.cur - last.prev
                                                ELSE last.prev - last.cur
                  q == (1000 * m) \div last.prev
                  r == (1000 * m) % last.prev
                  t == last.change.tenths
              IN /\ last.change.kind = "string"
                 /\ last.change.negative <=> last.cur < last.prev
                 /\ IF 2 * r < last.prev THEN t = q
                    ELSE IF 2 * r > last.prev THEN t = q + 1
                    ELSE t = q + 1 \/ (t = q /\ q % 2 = 0)

\* C17: for a sparse hourly input with distinct hours the series of the heatmap has
\* exactly 24 entries, entry h the count of hour h of the input or 0 when the input
\* has no such hour, under the labels 0..23 in ascending order.
C17_HeatmapDense ==
  last.op = "heatmap"
    => /\ Len(last.series) = 24
       /\ Len(last.labels) = 24
       /\ \A h \in 0..23 :
            /\ last.labels[h + 1] = h
            /\ IF \E n \in 1..Len(last.input) : last.input[n].hour = h
                 THEN \E n \in 1..Len(last.input) :
                        last.input[n].hour = h /\ last.series[h + 1] = last.input[n].count
                 ELSE last.series[h + 1] = 0

\* C17 witness: an input of two hours, the later one first, was densified.
C17_Witness ==
  /\ last.op = "heatmap"
  /\ Len(last.input) = 2
  /\ last.input[1].hour = 23
  /\ last.input[2].hour = 0
  /\ last.series[24] = 2
  /\ last.series[1] = last.input[2].count
  /\ last.series[8] = 0

\* how many entries of a ranking each report shape shows
ShapeLimit(shape) ==
  CASE shape \in {"users", "channels"} -> 10
    [] shape \in {"overview", "weekly"} -> 5
    [] shape = "stats" -> 1
    [] OTHER -> 0

\* the report shapes
ShowsUsers == {"overview", "users", "stats", "weekly"}
ShowsChannels == {"overview", "channels", "stats"}

\* the placeholder labels
UnknownUser == "Unknown User"
UnknownChannel == "Unknown Channel"

\* C18: in every report shape each shown entry has the rank and the count of its
\* entry in the ranking, and the placeholder label exactly when its identifier does
\* not resolve; the entries that resolve carry their names; a report whose only
\* trouble is identifiers that do not resolve completes.
C18_UnresolvedShownWithPlaceholder ==
  (last.op \in {"command", "weekly"} /\ last.fault = "none")
    => LET shape == last.payload.shape
           users == last.payload.users
           channels == last.payload.channels
           topUsers == last.analytics.topUsers
           topChannels == last.analytics.topChannels
           n == ShapeLimit(shape)
       IN /\ ~last.failed
          /\ shape \in ShowsUsers \cup ShowsChannels \cup {"heatmap"}
          /\ shape \in ShowsUsers
               => /\ Len(users) = (IF Len(topUsers) < n THEN Len(topUsers) ELSE n)
                  /\ \A k \in 1..Len(users) :
                       /\ users[k].rank = k
                       /\ users[k].count = topUsers[k].count
                       /\ users[k].label =
                            IF topUsers[k].user_id \in last.resolvableUsers
                              THEN UsernameOf(topUsers[k].user_id) ELSE UnknownUser
          /\ shape \in ShowsChannels
               => /\ Len(channels) =
                       (IF Len(topChannels) < n THEN Len(topChannels) ELSE n)
                  /\ \A k \in 1..Len(channels) :
                       /\ channels[k].rank = k
                       /\ channels[k].count = topChannels[k].count
                       /\ channels[k].label =
                            IF topChannels[k].channel_id \in last.resolvableChannels
                              THEN ChannelNameOf(topChannels[k].channel_id)
                              ELSE UnknownChannel

\* C18 witness: an overview was shown whose two first contributors do not resolve and
\* whose third one does, each with its count.
C18_Witness ==
  /\ last.op = "command"
  /\ last.payload.shape = "overview"
  /\ Len(last.payload.users) = 5
  /\ last.payload.users[1].label = UnknownUser
  /\ last.payload.users[1].count = 3
  /\ last.payload.users[3].label = "alice"
  /\ last.payload.users[3].count = 2
  /\ \E k \in 1..Len(last.payload.channels) : last.payload.channels[k].label = UnknownChannel

\* C19 (as claimed): when the execution of a command fails the operator receives
\* exactly one acknowledgment with the fixed text, by followUp when the command had
\* replied or deferred and by reply otherwise, and nothing leaves the handler.
C19_FailureAcknowledgedOnce ==
  (last.op = "command" /\ last.failed)
    => /\ Len(last.acks) = 1
       /\ last.acks[1].content = CommandError
       /\ last.acks[1].method =
            (IF last.replied \/ last.deferred THEN "followUp" ELSE "reply")
       /\ ~last.propagated

\* C20 (as claimed): the value getGuildSettings returns on first access has the
\* defaults and equals, field for field, the row a later call returns.
C20_FirstAccessEqualsRow ==
  [][(last'.op = "get" /\ Len(SelectSettings(guild_settings, last'.guild)) = 0)
       => LET row == SelectSettings(guild_settings', last'.guild)[1]
          IN /\ TruthyInt(last'.settings.enabled)
             /\ TruthyInt(last'.settings.notifications_enabled)
             /\ last'.settings = getGuildSettings(guild_settings', last'.guild).settings
             /\ last'.settings = row]_vars

\* C20 (amended): the value getGuildSettings returns on first access has tracking
\* and notifications on, no tracked channel and no log channel, and agrees with the
\* row a later call returns in guild_id, enabled, tracked_channels and
\* notifications_enabled; the log channel is unset in both, as a missing key in the
\* first value and as NULL in the row.
C20_FirstAccessAgreesWithRow ==
  [][(last'.op = "get" /\ Len(SelectSettings(guild_settings, last'.guild)) = 0)
       => LET later == getGuildSettings(guild_settings', last'.guild)
          IN /\ TruthyInt(last'.settings.enabled)
             /\ TruthyInt(last'.settings.notifications_enabled)
             /\ trackedChannelsOf(last'.settings) = <<>>
             /\ ~TruthyText(last'.settings.log_channel_id)
             /\ last'.settings.log_channel_id = Undefined
             /\ later.table = guild_settings'
             /\ later.settings.log_channel_id = Null
             /\ SameSettings(last'.settings, later.settings)]_vars

\* C20 witness: a first access has just created the second row of the table and
\* returned the object without a log channel.
C20_Witness ==
  /\ last.op = "get"
  /\ last.settings.log_channel_id = Undefined
  /\ Len(guild_settings) = 2
  /\ guild_settings[2].guild_id = last.guild
  /\ guild_settings[2].log_channel_id = Null

\* the interaction of the step, as the gateway delivers it
LastInteraction ==
  [guild |-> sessions[last'.target].guild, channel |-> sessions[last'.target].channel,
   user |-> sessions[last'.target].operator, customId |-> last'.customId,
   value |-> last'.value]

\* the handlers of session k that wait for their i.reply
Pending(sess) == sess.awaitFirst + sess.awaitLater

\* C21 (as claimed): an action collected by an open session causes exactly one write,
\* computed from the session's cached object, and the handler that wrote re-renders the
\* view exactly once before it ends; nothing is re-rendered without a write before it.
C21_OneWriteThenOneRender ==
  [][/\ last'.op = "component"
          => /\ \A k \in 1..Len(sessions) :
                  IF Collects(sessions[k], LastInteraction)
                    THEN /\ Cardinality({n \in 1..Len(last'.collected) :
                                           last'.collected[n] = k}) = 1
                         /\ Pending(sessions'[k]) = Pending(sessions[k]) + 1
                    ELSE /\ \A n \in 1..Len(last'.collected) : last'.collected[n] # k
                         /\ sessions'[k] = sessions[k]
             /\ Len(last'.collected) = 1
                  => guild_settings' =
                       updateGuildSettings(guild_settings, TargetGuild,
                         collectUpdates(sessions[last'.collected[1]].settings,
                                        last'.customId, last'.value))
             /\ Len(last'.collected) = 0 => guild_settings' = guild_settings
     /\ \A k \in 1..Len(sessions) :
          Pending(sessions'[k]) < Pending(sessions[k])
            => /\ last'.op = "rerender"
               /\ last'.target = k
               /\ sessions'[k].view = Render(sessions[k].settings)
     /\ last'.op = "rerender" => Pending(sessions[last'.target]) > 0]_vars

\* C22 (as claimed): the view of an open session none of whose handlers is still
\* running shows the tracking, notifications and log channel values of the guild's
\* row in the store.
C22_ViewShowsStore ==
  \A k \in 1..Len(sessions) :
    (Listening(sessions[k]) /\ Pending(sessions[k]) = 0)
      => /\ Len(RowsOf(sessions[k].guild)) = 1
         /\ sessions[k].view = Render(RowsOf(sessions[k].guild)[1])

\* C23 (as claimed): the view of a session whose collector has ended is not
\* re-rendered.
C23_NoRenderAfterClosed ==
  [][last'.op = "rerender" => Listening(sessions[last'.target])]_vars

\* C24: every session that is opened is closed in the end, exactly when 300000 ms
\* have passed since its first render whatever actions arrived; a closed session
\* stays closed, collects no action and its cached settings are not written again.
C24_SessionClosesAndStaysClosed ==
  /\ \A k \in 1..MaxSessions :
       (Len(sessions) >= k) ~> (Len(sessions) >= k /\ sessions[k].ended)
  /\ [][\A k \in 1..Len(sessions) :
          /\ sessions'[k].created = sessions[k].created
          /\ sessions'[k].ended <=> now' >= sessions[k].created + SessionTTL
          /\ sessions[k].ended
               => /\ sessions'[k].ended
                  /\ sessions'[k].settings = sessions[k].settings
                  /\ last'.op = "component"
                       => \A n \in 1..Len(last'.collected) : last'.collected[n] # k]_vars

\* C24 witness: a session was acted on while it was open, was closed 300000 ms after
\* its first render, and an action on its view after that was collected by nobody.
C24_Witness ==
  /\ last.op = "component"
  /\ last.collected = <<>>
  /\ sessions[last.target].ended
  /\ sessions[last.target].settings.enabled = 0
  /\ now = sessions[last.target].created + SessionTTL

\* C25 (as claimed): one action of an operator causes at most one write of the store,
\* also when the operator has several open sessions on the channel, and the store
\* holds the value of the last write.
C25_OneActionOneWrite ==
  [][last'.op = "component"
       => /\ Len(last'.collected) <= 1
          /\ Len(last'.collected) > 0
               => LET col == TargetColumn(last'.customId)
                      upd == collectUpdates(sessions[LastCollector].settings,
                                            last'.customId, last'.value)
                  IN SelectSettings(guild_settings', TargetGuild)[1][col] = upd[col]]_vars

\* C26: the MessageCreate handler goes by the row as the store holds it when the
\* message arrives: while the row says tracking is off no message of the guild is
\* appended, while it says tracking is on (no tracked channels) every message of a
\* user is, and the value a toggle_tracking wrote stays until the next action that a
\* session handles.
C26_ToggleTakesEffectOnNextMessage ==
  [][/\ (last'.op = "message" /\ ~last'.bot /\ last'.guild # "")
          => LET rows == SelectSettings(guild_settings, last'.guild) IN
             /\ (Len(rows) = 1 /\ rows[1].enabled = 0) => messages' = messages
             /\ (Len(rows) = 1 /\ rows[1].enabled = 1 /\ trackedChannelsOf(rows[1]) = <<>>)
                  => messages' = Append(messages,
                                   [guild_id |-> last'.guild, user_id |-> last'.user,
                                    channel_id |-> last'.channel,
                                    message_length |-> last'.len, timestamp |-> now])
     /\ (last'.op = "component" /\ Len(last'.collected) > 0
           /\ last'.customId = "toggle_tracking")
          => SelectSettings(guild_settings', TargetGuild)[1].enabled
               = Toggle(sessions[LastCollector].settings.enabled)
     /\ ~(last'.op = "component" /\ Len(last'.collected) > 0)
          => \A g \in Guilds :
               Len(SelectSettings(guild_settings, g)) = 1
                 => SelectSettings(guild_settings', g) = SelectSettings(guild_settings, g)
    ]_vars

\* C26 witness: a session switched tracking off (its view shows it) and on again (the
\* handler still waits to re-render), and the next message of the guild was recorded.
C26_Witness ==
  /\ last.op = "message"
  /\ Len(messages) = 1
  /\ messages[1].guild_id = last.guild
  /\ \E k \in 1..Len(sessions) :
       /\ sessions[k].guild = last.guild
       /\ sessions[k].view.tracking = "Disabled"
       /\ sessions[k].settings.enabled = 1
       /\ RowsOf(last.guild)[1].enabled = 1

\* a table after a step holds the rows it held before, unchanged and in their places,
\* and at most one more row, stamped with the current instant
Appended(before, after) ==
  \/ after = before
  \/ /\ Len(after) = Len(before) + 1
     /\ SubSeq(after, 1, Len(before)) = before
     /\ after[Len(after)].timestamp = now

\* the operations that record an event
Recording == {"message", "track", "reaction", "member"}

C30_ReactionsAndMembersUngated ==
  [][/\ (last'.op = "reaction" /\ ~last'.bot /\ last'.guild # "")
          => /\ reactions' = Append(reactions,
                               [guild_id |-> last'.guild, user_id |-> last'.user,
                                emoji |-> last'.emoji, timestamp |-> now])
             /\ guild_settings' = guild_settings
             /\ messages' = messages /\ members' = members
     /\ last'.op = "member"
          => /\ members' = Append(members,
                             [guild_id |-> last'.guild, user_id |-> last'.user,
                              action |-> last'.action, timestamp |-> now])
             /\ guild_settings' = guild_settings
             /\ messages' = messages /\ reactions' = reactions]_vars

\* C30 witness: a reaction was recorded for a guild whose tracking is off, after a
\* member of the guild had left.
C30_Witness ==
  /\ last.op = "reaction"
  /\ Len(reactions) = 1
  /\ reactions[1].guild_id = "g1"
  /\ Len(RowsOf("g1")) = 1
  /\ RowsOf("g1")[1].enabled = 0
  /\ Len(members) = 1
  /\ members[1].action = "leave"

\* C30 witness of the other cases: a join was recorded for a guild that has no
\* settings row, or whose tracked channels leave out every channel of its messages.
C30_WitnessNoRow ==
  /\ last.op = "member"
  /\ last.action = "join"
  /\ Len(members) = 1
  /\ guild_settings = <<>>

\* the rows of guild g in a table
OfGuild(table, g) == SelectSeq(table, LAMBDA r : r.guild_id = g)

\* the guild an operation of the step belongs to
StepGuild == IF last'.op = "component" THEN TargetGuild ELSE last'.guild

\* C28: the summaries of a guild are what they are on the guild's own rows alone,
\* and an event, a settings update or a session action of a guild leaves the settings
\* row and the events of every other guild as they were.
C28_CommunitiesIsolated ==
  [][/\ last'.op = "summarize"
          => last'.analytics =
               getAnalytics(OfGuild(messages, last'.guild), OfGuild(members, last'.guild),
                            last'.guild, last'.period, now, "asc")
     /\ last'.op = "previous"
          => last'.previous =
               getPreviousAnalytics(OfGuild(messages, last'.guild), last'.guild,
                                    last'.period, now)
     /\ last'.op \in {"message", "member", "update", "settings", "component"}
          => \A c \in Guilds \ {StepGuild} :
               /\ SelectSettings(guild_settings', c) = SelectSettings(guild_settings, c)
               /\ OfGuild(messages', c) = OfGuild(messages, c)
               /\ OfGuild(members', c) = OfGuild(members, c)
               /\ \A k \in 1..Len(sessions) :
                    sessions[k].guild = c => sessions'[k] = sessions[k]]_vars

\* C28 witness: g1 was summarised while the tables hold a message and a join of g2 in
\* the same week and g2's tracking had been switched off; the summary counts g1's
\* message only and g1's row still has tracking on.
C28_Witness ==
  /\ last.op = "summarize"
  /\ last.guild = "g1"
  /\ Len(messages) = 2
  /\ Len(members) = 1
  /\ last.analytics.totalMessages = 1
  /\ last.analytics.newMembers = 0
  /\ Len(RowsOf("g1")) = 1 /\ RowsOf("g1")[1].enabled = 1
  /\ Len(RowsOf("g2")) = 1 /\ RowsOf("g2")[1].enabled = 0

\* C29 (as claimed): in one report no message is counted both in the total of the
\* current window and in the total of the previous window, however long the second
\* clock read comes after the first.
C29_NoMessageCountedTwice ==
  last.op = "report"
    => LET range == timeRange(last.period)
           counted(n) == Len(Since(<<messages[n]>>, last.guild, last.first - range))
           countedBefore(n) ==
             Len(Between(<<messages[n]>>, last.guild,
                         last.second - range * 2, last.second - range))
       IN /\ last.analytics.totalMessages
               = Cardinality({n \in 1..Len(messages) : counted(n) = 1})
          /\ last.previous.totalMessages
               = Cardinality({n \in 1..Len(messages) : countedBefore(n) = 1})
          /\ \A n \in 1..Len(messages) : ~(counted(n) = 1 /\ countedBefore(n) = 1)

====
